---- MODULE Spec2Model ----
(***************************************************************************)
(* A model of sdl_screensaver_shim.c: the LD_PRELOAD replacement of        *)
(* SDL_DisableScreenSaver().  The program state is the shim's static data  *)
(* (real_function, banlist, exe_name, find_config_file's statics) and the  *)
(* stack slot of refresh_banlist's local config_mtime; the environment is  *)
(* what the shim reads (environment variables, /proc/self/exe, the policy  *)
(* file, the dynamic linker's symbols).  Strings are sequences of          *)
(* one-character strings.                                                  *)
(***************************************************************************)
EXTENDS Integers, Sequences, FiniteSets, TLC

VARIABLES
    real_function,  \* static void (*real_function)(void)
    banlist,        \* static struct list_entry *banlist, as the sequence of its values
    exe_name,       \* static char exe_name[1024]
    result_valid,   \* find_config_file: static int result_valid
    result,         \* find_config_file: static char result[1024]
    config_mtime,   \* refresh_banlist: what the last memcpy left in config_mtime
    environ,        \* the process environment: XDG_CONFIG_HOME and HOME
    proc_exe,       \* what readlink("/proc/self/exe") yields
    fs,             \* the policy file on disk
    symtab,         \* what dlvsym / dlsym find after this module
    check,          \* <<check_exe's return value>> in the invocation that just returned
    trace,          \* the calls and output of the invocation that just returned
    threads,        \* the host threads inside the entry point: position and locals
    heap,           \* the malloc'ed list entries, by address
    faults          \* the invalid memory accesses made so far

vars == <<real_function, banlist, exe_name, result_valid, result, config_mtime,
          environ, proc_exe, fs, symtab, check, trace, threads, heap, faults>>

shim == <<real_function, banlist, exe_name, result_valid, result, config_mtime>>

\* what only the specification with several host threads uses
host == <<threads, heap, faults>>

-----------------------------------------------------------------------------
(* Bounds and program constants *)

\* modification times are the pairs of seconds and nanoseconds that sum to at most
\* MaxStamp
MaxStamp == 1

\* char buf[1024] in refresh_banlist
BUF_SIZE == 1024
RESULT_SIZE == 1024

NULL == <<"NULL">>
NoRet == <<>>
NoTime == <<"uninitialised">>

ARCH == "amd64"
CONFIG_FILE == "sdl_screensaver_shim/banlist.conf"

Min(a, b) == IF a < b THEN a ELSE b

-----------------------------------------------------------------------------
(* Trace events *)

Ev(op) == <<op>>
EvArg(op, a) == <<op, a>>
StdErr(name, text) == <<"stderr", ARCH, name, text>>
StdOut(text) == <<"stdout", text>>

Count(t, op) == Cardinality({i \in DOMAIN t : t[i][1] = op})
Has(t, op) == \E i \in DOMAIN t : t[i][1] = op

-----------------------------------------------------------------------------
(* fnmatch(3), as check_exe calls it.  The printable ASCII characters, in  *)
(* code order from 32, give the ordering that bracket ranges use (the      *)
(* grave accent, code 96, is spelled out).                                 *)

Printable == <<
    " ", "!", "\"", "#", "$", "%", "&", "'", "(", ")", "*", "+", ",", "-", ".", "/",
    "0", "1", "2", "3", "4", "5", "6", "7", "8", "9", ":", ";", "<", "=", ">", "?",
    "@", "A", "B", "C", "D", "E", "F", "G", "H", "I", "J", "K", "L", "M", "N", "O",
    "P", "Q", "R", "S", "T", "U", "V", "W", "X", "Y", "Z", "[", "\\", "]", "^", "_",
    "grave", "a", "b", "c", "d", "e", "f", "g", "h", "i", "j", "k", "l", "m", "n", "o",
    "p", "q", "r", "s", "t", "u", "v", "w", "x", "y", "z", "{", "|", "}", "~" >>

Code(c) == IF c = "\n" THEN 10 ELSE 31 + (CHOOSE i \in DOMAIN Printable : Printable[i] = c)

tolower(c) == IF Code(c) >= 65 /\ Code(c) <= 90 THEN Printable[Code(c) + 32 - 31] ELSE c

FNM_PATHNAME == "FNM_PATHNAME"
FNM_NOESCAPE == "FNM_NOESCAPE"
FNM_CASEFOLD == "FNM_CASEFOLD"
FNM_NOMATCH == 1

Fold(c, flags) == IF FNM_CASEFOLD \in flags THEN tolower(c) ELSE c

\* the index of the "]" that closes the bracket expression whose first member is
\* at k, or 0 when the expression is not closed; a "]" in first place is a member
RECURSIVE BracketClose(_, _, _, _)
BracketClose(p, k, first, flags) ==
    IF k > Len(p) THEN 0
    ELSE IF p[k] = "]" /\ ~first THEN k
    ELSE IF p[k] = "\\" /\ FNM_NOESCAPE \notin flags THEN BracketClose(p, k + 2, FALSE, flags)
    ELSE BracketClose(p, k + 1, FALSE, flags)

\* whether c is a member of the bracket members p[a..b]
RECURSIVE BracketHas(_, _, _, _, _)
BracketHas(p, a, b, c, flags) ==
    IF a > b THEN FALSE
    ELSE IF p[a] = "\\" /\ FNM_NOESCAPE \notin flags /\ a + 1 <= b
         THEN Fold(p[a + 1], flags) = c \/ BracketHas(p, a + 2, b, c, flags)
    ELSE IF a + 2 <= b /\ p[a + 1] = "-"
         THEN (Code(Fold(p[a], flags)) <= Code(c) /\ Code(c) <= Code(Fold(p[a + 2], flags)))
              \/ BracketHas(p, a + 3, b, c, flags)
    ELSE Fold(p[a], flags) = c \/ BracketHas(p, a + 1, b, c, flags)

\* whether the pattern from p[i] on matches the string from s[j] on
RECURSIVE PatternMatches(_, _, _, _, _)
PatternMatches(p, i, s, j, flags) ==
    IF i > Len(p) THEN j > Len(s)
    ELSE IF p[i] = "?"
         THEN /\ j <= Len(s)
              /\ ~(FNM_PATHNAME \in flags /\ s[j] = "/")
              /\ PatternMatches(p, i + 1, s, j + 1, flags)
    ELSE IF p[i] = "*"
         THEN \E k \in j..(Len(s) + 1) :
                 /\ FNM_PATHNAME \in flags => \A m \in j..(k - 1) : s[m] # "/"
                 /\ PatternMatches(p, i + 1, s, k, flags)
    ELSE IF p[i] = "\\" /\ FNM_NOESCAPE \notin flags
         THEN /\ i + 1 <= Len(p)
              /\ j <= Len(s)
              /\ Fold(p[i + 1], flags) = Fold(s[j], flags)
              /\ PatternMatches(p, i + 2, s, j + 1, flags)
    ELSE IF p[i] = "[" /\ i + 1 <= Len(p)
         THEN LET negated == p[i + 1] \in {"!", "^"}
                  start == IF negated THEN i + 2 ELSE i + 1
                  close == BracketClose(p, start, TRUE, flags)
              IN  IF close = 0
                  THEN /\ j <= Len(s)
                       /\ s[j] = "["
                       /\ PatternMatches(p, i + 1, s, j + 1, flags)
                  ELSE /\ j <= Len(s)
                       /\ ~(FNM_PATHNAME \in flags /\ s[j] = "/")
                       /\ BracketHas(p, start, close - 1, Fold(s[j], flags), flags) # negated
                       /\ PatternMatches(p, close + 1, s, j + 1, flags)
    ELSE /\ j <= Len(s)
         /\ Fold(p[i], flags) = Fold(s[j], flags)
         /\ PatternMatches(p, i + 1, s, j + 1, flags)

fnmatch(pattern, string, flags) ==
    IF PatternMatches(pattern, 1, string, 1, flags) THEN 0 ELSE FNM_NOMATCH

-----------------------------------------------------------------------------
(* The environment the shim reads *)

\* values of XDG_CONFIG_HOME and HOME, and the path the policy file is kept at
XdgDir == <<"/xdg">>
HomeDir == <<"/home/u">>
XdgPath == XdgDir \o <<"/", CONFIG_FILE>>
HomePath == HomeDir \o <<"/.config/", CONFIG_FILE>>

Environs == { [XDG_CONFIG_HOME |-> XdgDir, HOME |-> HomeDir],
              [XDG_CONFIG_HOME |-> NULL, HOME |-> HomeDir],
              [XDG_CONFIG_HOME |-> NULL, HOME |-> NULL] }

\* a directory name of 995 characters: with the suffix it does not fit in result
Pad5 == "ddddd"
Pad35 == Pad5 \o Pad5 \o Pad5 \o Pad5 \o Pad5 \o Pad5 \o Pad5
Pad142 == Pad35 \o Pad35 \o Pad35 \o Pad35 \o "dd"
LongDir == <<"/" \o Pad142 \o Pad142 \o Pad142 \o Pad142 \o Pad142 \o Pad142 \o Pad142>>
ProcessEnvirons == [XDG_CONFIG_HOME : {NULL, XdgDir, LongDir}, HOME : {NULL, HomeDir, LongDir}]

getenv(name) == IF name = "XDG_CONFIG_HOME" THEN environ.XDG_CONFIG_HOME ELSE environ.HOME

\* readlink("/proc/self/exe"): the executable's path, or ReadlinkFails for -1
ReadlinkFails == <<"-1">>
SteamExe == <<"/", "b", "/", "S", "1">>
GameExe == <<"/", "b", "/", "g">>
Unknown == <<"(", "u", "n", "k", "n", "o", "w", "n", ")">>
ProcExes == {ReadlinkFails, SteamExe, GameExe}

\* st_mtim: tv_sec and tv_nsec
Mtimes == {m \in (0..MaxStamp) \X (0..MaxStamp) : m[1] + m[2] <= MaxStamp}

\* policy file contents
WholePathPattern == <<"*", "/", "S", "*", "\n">>
BaseNamePattern == <<"S", "*", "\n">>
TwoPatterns == <<"?", "b", "/", "[", "R", "-", "T", "]", "1", "\n", "\n", "/", "b", "/">>
Contents == {WholePathPattern, BaseNamePattern, TwoPatterns}

NoFile == [exists |-> FALSE, readable |-> FALSE, mtime |-> <<0, 0>>, content |-> <<>>]
Files == {NoFile} \cup [exists : {TRUE}, readable : BOOLEAN, mtime : Mtimes, content : Contents]

\* the addresses the two lookups can yield
VersionedFn == <<"SDL_DisableScreenSaver@libSDL2-2.0.so.0">>
PlainFn == <<"SDL_DisableScreenSaver">>
SymTabs == [versioned : {NULL, VersionedFn}, plain : {NULL, PlainFn}]

dlvsym == symtab.versioned
dlsym == symtab.plain

stat_ok(path) == fs.file.exists /\ path = fs.path
fopen_ok(path) == stat_ok(path) /\ fs.file.readable

-----------------------------------------------------------------------------
(* call_real_function *)

\* call_real_function without the test of line 72: it looks the symbol up on every call
call_real_function_relookup(name) ==
    LET looked_up == IF dlvsym # NULL THEN dlvsym ELSE dlsym
    IN  [real_function |-> looked_up,
         events |-> <<Ev("dlvsym")>>
                    \o (IF dlvsym = NULL
                        THEN <<StdOut("no real function, retry..."), Ev("dlsym")>>
                        ELSE <<>>)
                    \o (IF looked_up # NULL
                        THEN <<StdErr(name, "Successfully linked SDL_DisableScreenSaver()."),
                               StdErr(name, "Allowing SDL_DisableScreenSaver()."),
                               EvArg("call", looked_up)>>
                        ELSE <<StdErr(name, "Could not link SDL_DisableScreenSaver().")>>)]

\* call_real_function with the forwarding of lines 90-92 as the else branch of line 72:
\* the call that links the symbol does not forward
call_real_function_linkonly(name) ==
    IF real_function # NULL
    THEN [real_function |-> real_function,
          events |-> <<StdErr(name, "Allowing SDL_DisableScreenSaver()."),
                       EvArg("call", real_function)>>]
    ELSE LET looked_up == IF dlvsym # NULL THEN dlvsym ELSE dlsym
         IN  [real_function |-> looked_up,
              events |-> <<Ev("dlvsym")>>
                         \o (IF dlvsym = NULL
                             THEN <<StdOut("no real function, retry..."), Ev("dlsym")>>
                             ELSE <<>>)
                         \o (IF looked_up # NULL
                             THEN <<StdErr(name, "Successfully linked SDL_DisableScreenSaver().")>>
                             ELSE <<StdErr(name, "Could not link SDL_DisableScreenSaver().")>>)]

\* call_real_function remembering a failed lookup: it stores a marker and gives up
LookupFailed == <<"lookup failed">>
call_real_function_givesup(name) ==
    IF real_function = LookupFailed
    THEN [real_function |-> LookupFailed,
          events |-> <<StdErr(name, "Could not link SDL_DisableScreenSaver().")>>]
    ELSE IF real_function # NULL
    THEN [real_function |-> real_function,
          events |-> <<StdErr(name, "Allowing SDL_DisableScreenSaver()."),
                       EvArg("call", real_function)>>]
    ELSE LET looked_up == IF dlvsym # NULL THEN dlvsym ELSE dlsym
         IN  [real_function |-> IF looked_up = NULL THEN LookupFailed ELSE looked_up,
              events |-> <<Ev("dlvsym")>>
                         \o (IF dlvsym = NULL
                             THEN <<StdOut("no real function, retry..."), Ev("dlsym")>>
                             ELSE <<>>)
                         \o (IF looked_up # NULL
                             THEN <<StdErr(name, "Successfully linked SDL_DisableScreenSaver()."),
                                    StdErr(name, "Allowing SDL_DisableScreenSaver()."),
                                    EvArg("call", looked_up)>>
                             ELSE <<StdErr(name, "Could not link SDL_DisableScreenSaver().")>>)]

\* name is exe_name, which vlog prints; yields the new real_function and the events
call_real_function(name) ==
    LET versioned == IF real_function = NULL THEN dlvsym ELSE real_function
        looked_up == IF real_function = NULL /\ versioned = NULL THEN dlsym ELSE versioned
        lookups == IF real_function # NULL THEN <<>>
                   ELSE <<Ev("dlvsym")>>
                        \o (IF versioned = NULL
                            THEN <<StdOut("no real function, retry..."), Ev("dlsym")>>
                            ELSE <<>>)
                        \o (IF looked_up # NULL
                            THEN <<StdErr(name, "Successfully linked SDL_DisableScreenSaver().")>>
                            ELSE <<>>)
    IN  [real_function |-> looked_up,
         events |-> lookups
                    \o (IF looked_up # NULL
                        THEN <<StdErr(name, "Allowing SDL_DisableScreenSaver()."),
                               EvArg("call", looked_up)>>
                        ELSE <<StdErr(name, "Could not link SDL_DisableScreenSaver().")>>)]

-----------------------------------------------------------------------------
(* find_config_file *)

\* snprintf(result, size, ...): the pieces of the formatted text, cut after
\* size - 1 characters
RECURSIVE snprintf(_, _)
snprintf(size, pieces) ==
    IF pieces = <<>> \/ size <= 1 THEN <<>>
    ELSE IF Len(Head(pieces)) <= size - 1
         THEN <<Head(pieces)>> \o snprintf(size - Len(Head(pieces)), Tail(pieces))
         ELSE <<SubSeq(Head(pieces), 1, size - 1)>>

snprintf_home(home) == snprintf(RESULT_SIZE, home \o <<"/.config/", CONFIG_FILE>>)
snprintf_xdg(config_dir) == snprintf(RESULT_SIZE, config_dir \o <<"/", CONFIG_FILE>>)

\* find_config_file without the test of lines 101-102: the path is computed on every call
find_config_file_recomputes(name) ==
    IF getenv("XDG_CONFIG_HOME") = NULL
    THEN IF getenv("HOME") = NULL
         THEN [result |-> <<>>,
               events |-> <<EvArg("getenv", "XDG_CONFIG_HOME"), EvArg("getenv", "HOME"),
                            StdErr(name, "Error: could not find $HOME!")>>]
         ELSE [result |-> snprintf_home(getenv("HOME")),
               events |-> <<EvArg("getenv", "XDG_CONFIG_HOME"), EvArg("getenv", "HOME")>>]
    ELSE [result |-> snprintf_xdg(getenv("XDG_CONFIG_HOME")),
          events |-> <<EvArg("getenv", "XDG_CONFIG_HOME")>>]

find_config_file(name) ==
    IF result_valid
    THEN [result |-> result, events |-> <<>>]
    ELSE IF getenv("XDG_CONFIG_HOME") = NULL
         THEN IF getenv("HOME") = NULL
              THEN [result |-> <<>>,
                    events |-> <<EvArg("getenv", "XDG_CONFIG_HOME"), EvArg("getenv", "HOME"),
                                 StdErr(name, "Error: could not find $HOME!")>>]
              ELSE [result |-> snprintf_home(getenv("HOME")),
                    events |-> <<EvArg("getenv", "XDG_CONFIG_HOME"), EvArg("getenv", "HOME")>>]
         ELSE [result |-> snprintf_xdg(getenv("XDG_CONFIG_HOME")),
               events |-> <<EvArg("getenv", "XDG_CONFIG_HOME")>>]

-----------------------------------------------------------------------------
(* refresh_banlist *)

\* fgets(buf, sizeof(buf), fp) with the file position at pos: at most BUF_SIZE - 1
\* characters, ending after the first newline
fgets(content, pos) ==
    LET limit == Min(Len(content), pos + BUF_SIZE - 2)
        newlines == {i \in pos..limit : content[i] = "\n"}
        last == IF newlines = {} THEN limit
                ELSE CHOOSE i \in newlines : \A k \in newlines : i <= k
    IN  SubSeq(content, pos, last)

\* the line without its trailing newline
strip_newline(buf) ==
    IF Len(buf) > 0 /\ buf[Len(buf)] = "\n" THEN SubSeq(buf, 1, Len(buf) - 1) ELSE buf

\* next->value after malloc(line_size + 1) and strncpy(next->value, buf, line_size):
\* the copy writes no terminator, so the string that value holds is the line followed
\* by whatever the allocation held from value[line_size] up to the first zero byte
HeapTails == {<<>>, <<"g">>}
strncpy_value(line, heap_tail) == line \o heap_tail

\* the read loop without the test of lines 158-159: an empty line becomes an entry
RECURSIVE read_entries_noskip(_, _, _)
read_entries_noskip(content, pos, heap_tails) ==
    IF pos > Len(content) THEN <<>>
    ELSE LET buf == fgets(content, pos)
             line == strip_newline(buf)
         IN  <<strncpy_value(line, IF heap_tails = <<>> THEN <<>> ELSE Head(heap_tails))>>
             \o read_entries_noskip(content, pos + Len(buf),
                                    IF heap_tails = <<>> THEN <<>> ELSE Tail(heap_tails))

\* the entries the read loop appends from file position pos on; heap_tails are the
\* heap's contents behind the entries still to be allocated
RECURSIVE read_entries(_, _, _)
read_entries(content, pos, heap_tails) ==
    IF pos > Len(content) THEN <<>>
    ELSE LET buf == fgets(content, pos)
             line == strip_newline(buf)
         IN  IF Len(line) = 0
             THEN read_entries(content, pos + Len(buf), heap_tails)
             ELSE <<strncpy_value(line, Head(heap_tails))>>
                  \o read_entries(content, pos + Len(buf), Tail(heap_tails))

\* the number of entries the read loop allocates for a file content
NumEntries(content) == Len(read_entries(content, 1, [i \in 1..Len(content) |-> <<>>]))

\* whether the modification time changed, as line 131 compares it
mtime_differs(a, b) == a[2] # b[2] \/ a[1] # b[1]

\* refresh_banlist copying attr.st_mtim (line 133) before the return of line 128
refresh_banlist_stampsonmissing(name, path, stack_mtime, heap_tails) ==
    IF ~stat_ok(path)
    THEN [banlist |-> banlist, config_mtime |-> stack_mtime,
          events |-> <<Ev("stat"), StdErr(name, "Can't find config file!")>>]
    ELSE IF mtime_differs(stack_mtime, fs.file.mtime)
         THEN IF ~fopen_ok(path)
              THEN [banlist |-> <<>>, config_mtime |-> fs.file.mtime,
                    events |-> <<Ev("stat"), EvArg("free", Len(banlist)), Ev("fopen"),
                                 StdErr(name, "Could not open config file!")>>]
              ELSE [banlist |-> read_entries(fs.file.content, 1, heap_tails),
                    config_mtime |-> fs.file.mtime,
                    events |-> <<Ev("stat"), EvArg("free", Len(banlist)), Ev("fopen"),
                                 Ev("fgets")>>]
         ELSE [banlist |-> banlist, config_mtime |-> config_mtime,
               events |-> <<Ev("stat")>>]

\* refresh_banlist opening the file (lines 142-146) before it releases the list
\* (lines 135-140): a failed open returns with the list as it was
refresh_banlist_keepsonunreadable(name, path, stack_mtime, heap_tails) ==
    IF ~stat_ok(path)
    THEN [banlist |-> banlist, config_mtime |-> config_mtime,
          events |-> <<Ev("stat"), StdErr(name, "Can't find config file!")>>]
    ELSE IF mtime_differs(stack_mtime, fs.file.mtime)
         THEN IF ~fopen_ok(path)
              THEN [banlist |-> banlist, config_mtime |-> fs.file.mtime,
                    events |-> <<Ev("stat"), Ev("fopen"),
                                 StdErr(name, "Could not open config file!")>>]
              ELSE [banlist |-> read_entries(fs.file.content, 1, heap_tails),
                    config_mtime |-> fs.file.mtime,
                    events |-> <<Ev("stat"), EvArg("free", Len(banlist)), Ev("fopen"),
                                 Ev("fgets")>>]
         ELSE [banlist |-> banlist, config_mtime |-> config_mtime,
               events |-> <<Ev("stat")>>]

\* refresh_banlist releasing the list before the return of line 128
refresh_banlist_dropsonmissing(name, path, stack_mtime, heap_tails) ==
    IF ~stat_ok(path)
    THEN [banlist |-> <<>>, config_mtime |-> config_mtime,
          events |-> <<Ev("stat"), StdErr(name, "Can't find config file!"),
                       EvArg("free", Len(banlist))>>]
    ELSE IF mtime_differs(stack_mtime, fs.file.mtime)
         THEN IF ~fopen_ok(path)
              THEN [banlist |-> <<>>, config_mtime |-> fs.file.mtime,
                    events |-> <<Ev("stat"), EvArg("free", Len(banlist)), Ev("fopen"),
                                 StdErr(name, "Could not open config file!")>>]
              ELSE [banlist |-> read_entries(fs.file.content, 1, heap_tails),
                    config_mtime |-> fs.file.mtime,
                    events |-> <<Ev("stat"), EvArg("free", Len(banlist)), Ev("fopen"),
                                 Ev("fgets")>>]
         ELSE [banlist |-> banlist, config_mtime |-> config_mtime,
               events |-> <<Ev("stat")>>]

\* name is exe_name, path is find_config_file's result, stack_mtime is the value
\* the uninitialised local config_mtime holds on entry
refresh_banlist(name, path, stack_mtime, heap_tails) ==
    IF ~stat_ok(path)
    THEN [banlist |-> banlist, config_mtime |-> config_mtime,
          events |-> <<Ev("stat"), StdErr(name, "Can't find config file!")>>]
    ELSE IF mtime_differs(stack_mtime, fs.file.mtime)
         THEN IF ~fopen_ok(path)
              THEN [banlist |-> <<>>, config_mtime |-> fs.file.mtime,
                    events |-> <<Ev("stat"), EvArg("free", Len(banlist)), Ev("fopen"),
                                 StdErr(name, "Could not open config file!")>>]
              ELSE [banlist |-> read_entries(fs.file.content, 1, heap_tails),
                    config_mtime |-> fs.file.mtime,
                    events |-> <<Ev("stat"), EvArg("free", Len(banlist)), Ev("fopen"),
                                 Ev("fgets")>>]
         ELSE [banlist |-> banlist, config_mtime |-> config_mtime,
               events |-> <<Ev("stat")>>]

-----------------------------------------------------------------------------
(* check_exe *)

\* lines 177-184 without the test of line 177: readlink on every call
resolve_exe_name_everycall ==
    IF proc_exe = ReadlinkFails THEN Unknown ELSE proc_exe

\* lines 177-184: exe_name after the first-use readlink
resolve_exe_name ==
    IF exe_name = <<>>
    THEN IF proc_exe = ReadlinkFails THEN Unknown ELSE proc_exe
    ELSE exe_name

\* the loop of lines 188-196 with the return values of lines 191 and 196 exchanged
RECURSIVE match_loop_inverted(_, _)
match_loop_inverted(entries, name) ==
    IF entries = <<>> THEN 0
    ELSE IF fnmatch(Head(entries), name, {}) = 0 THEN 1
    ELSE match_loop_inverted(Tail(entries), name)

\* the loop of lines 188-196 as an if: only the first entry is tried
match_loop_firstonly(entries, name) ==
    IF entries = <<>> THEN 1
    ELSE IF fnmatch(Head(entries), name, {}) = 0 THEN 0
    ELSE 1

\* the loop of lines 188-196 with FNM_PATHNAME for the 0 of line 190
RECURSIVE match_loop_pathname(_, _)
match_loop_pathname(entries, name) ==
    IF entries = <<>> THEN 1
    ELSE IF fnmatch(Head(entries), name, {FNM_PATHNAME}) = 0 THEN 0
    ELSE match_loop_pathname(Tail(entries), name)

\* lines 188-196: 0 at the first entry that matches, 1 when none does
RECURSIVE match_loop(_, _)
match_loop(entries, name) ==
    IF entries = <<>> THEN 1
    ELSE IF fnmatch(Head(entries), name, {}) = 0 THEN 0
    ELSE match_loop(Tail(entries), name)

check_exe(stack_mtime, heap_tails) ==
    LET name == resolve_exe_name
        located == find_config_file(name)
        refreshed == refresh_banlist(name, located.result, stack_mtime, heap_tails)
    IN  [exe_name |-> name,
         result |-> located.result,
         banlist |-> refreshed.banlist,
         config_mtime |-> refreshed.config_mtime,
         ret |-> match_loop(refreshed.banlist, name),
         events |-> (IF exe_name = <<>> THEN <<Ev("readlink")>> ELSE <<>>)
                    \o located.events \o refreshed.events]

-----------------------------------------------------------------------------
(* The exported entry point and the environment's steps *)

\* the heap contents the read loop can meet if it reloads the file now
TailChoices == [1..(IF fs.file.exists THEN NumEntries(fs.file.content) ELSE 0) -> HeapTails]

SDL_DisableScreenSaver ==
    \E stack_mtime \in Mtimes, heap_tails \in TailChoices :
        \E checked \in {check_exe(stack_mtime, heap_tails)} :
        \E called \in {call_real_function(checked.exe_name)} :
            /\ exe_name' = checked.exe_name
            /\ result_valid' = TRUE
            /\ result' = checked.result
            /\ banlist' = checked.banlist
            /\ config_mtime' = checked.config_mtime
            /\ check' = <<checked.ret>>
            /\ IF checked.ret # 0
               THEN /\ real_function' = called.real_function
                    /\ trace' = checked.events \o called.events
               ELSE /\ real_function' = real_function
                    /\ trace' = checked.events
                                \o <<StdErr(checked.exe_name, "Prevented SDL_DisableScreenSaver().")>>
            /\ UNCHANGED <<environ, proc_exe, fs, symtab, host>>

\* another process writes the policy file
WriteFile ==
    \E content \in Contents, mtime \in Mtimes :
        /\ fs' = [fs EXCEPT !.file = [exists |-> TRUE,
                                      readable |-> IF fs.file.exists THEN fs.file.readable ELSE TRUE,
                                      mtime |-> mtime, content |-> content]]
        /\ fs' # fs
        /\ check' = NoRet
        /\ trace' = <<>>
        /\ UNCHANGED <<shim, environ, proc_exe, symtab, host>>

DeleteFile ==
    /\ fs.file.exists
    /\ fs' = [fs EXCEPT !.file = NoFile]
    /\ check' = NoRet
    /\ trace' = <<>>
    /\ UNCHANGED <<shim, environ, proc_exe, symtab, host>>

\* the file's read permission is taken away or given back
ChmodFile ==
    /\ fs.file.exists
    /\ fs' = [fs EXCEPT !.file.readable = ~fs.file.readable]
    /\ check' = NoRet
    /\ trace' = <<>>
    /\ UNCHANGED <<shim, environ, proc_exe, symtab, host>>

\* the host loads or unloads a library that defines the symbol
SymbolsChange ==
    \E t \in SymTabs :
        /\ t # symtab
        /\ symtab' = t
        /\ check' = NoRet
        /\ trace' = <<>>
        /\ UNCHANGED <<shim, environ, proc_exe, fs, host>>

Init ==
    /\ real_function = NULL
    /\ banlist = <<>>
    /\ exe_name = <<>>
    /\ result_valid = FALSE
    /\ result = <<>>
    /\ config_mtime = NoTime
    /\ environ \in Environs
    /\ proc_exe \in ProcExes
    /\ fs = [path |-> HomePath, file |-> NoFile]
    /\ symtab \in SymTabs
    /\ check = NoRet
    /\ trace = <<>>
    /\ threads = <<>>
    /\ heap = <<>>
    /\ faults = {}

Next ==
    \/ SDL_DisableScreenSaver
    \/ WriteFile
    \/ DeleteFile
    \/ ChmodFile
    \/ SymbolsChange

Spec == Init /\ [][Next]_vars

-----------------------------------------------------------------------------
(* Properties of the entry point.  check and trace describe the invocation *)
(* that just returned; a step of the environment resets them, so a step    *)
(* with check' # NoRet that changes the state is an invocation.            *)

Calls(t) == {i \in DOMAIN t : t[i][1] = "call"}
Logged(t, text) == \E i \in DOMAIN t : t[i][1] = "stderr" /\ t[i][4] = text
SomeEntryMatches(entries, name) == \E i \in DOMAIN entries : fnmatch(entries[i], name, {}) = 0

\* C1: an invocation whose refreshed ban list has an entry matching the executable
\* path does not invoke the real function, attempts neither symbol lookup and leaves
\* real_function as it was.
C1_SuppressedCallHasNoEffect ==
    [][(check' # NoRet /\ SomeEntryMatches(banlist', exe_name'))
       => /\ real_function' = real_function
          /\ ~Has(trace', "call")
          /\ ~Has(trace', "dlvsym")
          /\ ~Has(trace', "dlsym")]_vars

\* a suppressed invocation while the symbol could have been looked up and was not
C1_Witness ==
    /\ check = <<0>>
    /\ SomeEntryMatches(banlist, exe_name)
    /\ real_function = NULL
    /\ symtab.versioned # NULL
    /\ Logged(trace, "Prevented SDL_DisableScreenSaver().")

\* C2: an invocation that is not suppressed invokes the real function exactly once,
\* through the handle, when the resolver yields one, and does not invoke it (and
\* returns) when the resolver yields none.
C2_AllowedCallForwardsOnceOrDrops ==
    [][(check' = <<1>>)
       => IF real_function' # NULL
          THEN /\ Count(trace', "call") = 1
               /\ \A i \in Calls(trace') : trace'[i][2] = real_function'
          ELSE /\ Count(trace', "call") = 0
               /\ Logged(trace', "Could not link SDL_DisableScreenSaver().")]_vars

\* an allowed invocation that resolved the symbol by the fallback lookup and forwarded
C2_Witness ==
    /\ check = <<1>>
    /\ Has(trace, "dlsym")
    /\ Count(trace, "call") = 1
    /\ real_function = PlainFn

\* C9: once real_function is set, no later invocation calls dlvsym or dlsym, the
\* handle never changes, and every later allowed invocation forwards to it.
C9_ResolvedHandleIsKept ==
    [][(real_function # NULL)
       => /\ real_function' = real_function
          /\ check' # NoRet => ~Has(trace', "dlvsym") /\ ~Has(trace', "dlsym")
          /\ check' = <<1>> => /\ Count(trace', "call") = 1
                           /\ \A i \in Calls(trace') : trace'[i][2] = real_function]_vars

\* a call forwarded to the cached handle when a lookup would now yield another answer
C9_Witness ==
    /\ check = <<1>>
    /\ real_function = PlainFn
    /\ symtab.versioned = VersionedFn
    /\ ~Has(trace, "dlvsym")
    /\ Count(trace, "call") = 1

\* C10: a failed resolution leaves real_function NULL, and every allowed invocation
\* that starts with real_function NULL attempts the lookups again; it resolves the
\* handle and forwards as soon as one of the two lookups finds the symbol.
C10_FailureIsNotCached ==
    [][(check' = <<1>> /\ real_function = NULL)
       => /\ Has(trace', "dlvsym")
          /\ symtab.versioned = NULL => Has(trace', "dlsym")
          /\ IF symtab.versioned = NULL /\ symtab.plain = NULL
             THEN real_function' = NULL /\ ~Has(trace', "call")
             ELSE real_function' # NULL /\ Count(trace', "call") = 1]_vars

\* an allowed invocation whose two lookups failed: the resolver is still unresolved
C10_Witness ==
    /\ check = <<1>>
    /\ real_function = NULL
    /\ Has(trace, "dlvsym")
    /\ Has(trace, "dlsym")
    /\ Logged(trace, "Could not link SDL_DisableScreenSaver().")

-----------------------------------------------------------------------------
(* Shell-glob matching stated as acceptance of the string by the pattern's *)
(* tokens: "*" takes any run of characters, "?" any one character, a       *)
(* bracket expression one character of its class (or, after "!" or "^",    *)
(* one outside it), a backslash makes the next character literal, and      *)
(* every other character stands for itself.  No character of the string,   *)
(* "/" included, is treated specially, and case is significant.            *)

GlobStar == [kind |-> "star", neg |-> FALSE, ranges |-> {}]
GlobAny == [kind |-> "set", neg |-> TRUE, ranges |-> {}]
GlobNone == [kind |-> "set", neg |-> FALSE, ranges |-> {}]
GlobLit(c) == [kind |-> "set", neg |-> FALSE, ranges |-> {<<Code(c), Code(c)>>}]

\* the code ranges the bracket members p[a..b] denote
RECURSIVE GlobRanges(_, _, _)
GlobRanges(p, a, b) ==
    IF a > b THEN {}
    ELSE IF p[a] = "\\" /\ a < b
         THEN {<<Code(p[a + 1]), Code(p[a + 1])>>} \cup GlobRanges(p, a + 2, b)
    ELSE IF a + 2 <= b /\ p[a + 1] = "-"
         THEN {<<Code(p[a]), Code(p[a + 2])>>} \cup GlobRanges(p, a + 3, b)
    ELSE {<<Code(p[a]), Code(p[a])>>} \cup GlobRanges(p, a + 1, b)

\* the positions after first at which an unescaped "]" stands, members starting at first
RECURSIVE GlobEscaped(_, _, _)
GlobEscaped(p, first, k) ==
    k > first /\ p[k - 1] = "\\" /\ ~GlobEscaped(p, first, k - 1)
GlobClosers(p, first) ==
    {k \in (first + 1)..Len(p) : p[k] = "]" /\ ~GlobEscaped(p, first, k)}

RECURSIVE GlobTokens(_, _)
GlobTokens(p, i) ==
    IF i > Len(p) THEN <<>>
    ELSE IF p[i] = "*" THEN <<GlobStar>> \o GlobTokens(p, i + 1)
    ELSE IF p[i] = "?" THEN <<GlobAny>> \o GlobTokens(p, i + 1)
    ELSE IF p[i] = "\\"
         THEN IF i = Len(p) THEN <<GlobNone>>
              ELSE <<GlobLit(p[i + 1])>> \o GlobTokens(p, i + 2)
    ELSE IF p[i] = "[" /\ i < Len(p)
         THEN LET neg == p[i + 1] \in {"!", "^"}
                  first == IF neg THEN i + 2 ELSE i + 1
                  closers == GlobClosers(p, first)
              IN  IF closers = {}
                  THEN <<GlobLit("[")>> \o GlobTokens(p, i + 1)
                  ELSE LET close == CHOOSE k \in closers : \A m \in closers : k <= m
                       IN  <<[kind |-> "set", neg |-> neg,
                              ranges |-> GlobRanges(p, first, close - 1)]>>
                           \o GlobTokens(p, close + 1)
    ELSE <<GlobLit(p[i])>> \o GlobTokens(p, i + 1)

GlobAccepts(token, c) ==
    /\ token.kind = "set"
    /\ (\E r \in token.ranges : r[1] <= Code(c) /\ Code(c) <= r[2]) # token.neg

\* the token positions reachable from those of at by skipping stars
GlobSkip(tokens, at) ==
    {j \in 1..(Len(tokens) + 1) :
        \E i \in at : i <= j /\ \A k \in i..(j - 1) : tokens[k].kind = "star"}

GlobStep(tokens, at, c) ==
    GlobSkip(tokens,
             {i + 1 : i \in {k \in at : k <= Len(tokens) /\ GlobAccepts(tokens[k], c)}}
             \cup {i \in at : i <= Len(tokens) /\ tokens[i].kind = "star"})

RECURSIVE GlobRun(_, _, _, _)
GlobRun(tokens, at, s, j) ==
    IF j > Len(s) THEN at ELSE GlobRun(tokens, GlobStep(tokens, at, s[j]), s, j + 1)

GlobMatches(p, s) ==
    LET tokens == GlobTokens(p, 1)
    IN  (Len(tokens) + 1) \in GlobRun(tokens, GlobSkip(tokens, {1}), s, 1)

-----------------------------------------------------------------------------
(* The match loop alone, on ban lists and candidate strings drawn from     *)
(* bounded sets                                                            *)

\* ban lists hold at most MaxList entries
MaxList == 2

MatchPatterns ==
    { <<"*", "/", "S", "*">>,
      <<"S", "*">>,
      <<"/", "b", "/", "?">>,
      <<"*", "[", "R", "-", "T", "]", "1">>,
      <<"*", "[", "!", "R", "-", "T", "]", "?">>,
      <<"/", "b", "/", "s", "1">>,
      <<"\\", "*">>,
      <<"[", "*", "]", "]">> }

MatchCandidates == {SteamExe, GameExe, Unknown, <<"*">>, <<"*", "]">>, <<"/", "b", "/", "s", "1">>}

MatchLists == UNION {[1..n -> MatchPatterns] : n \in 0..MaxList}

InitMatch ==
    /\ real_function = NULL
    /\ banlist \in MatchLists
    /\ exe_name \in MatchCandidates
    /\ result_valid = FALSE
    /\ result = <<>>
    /\ config_mtime = NoTime
    /\ environ = [XDG_CONFIG_HOME |-> NULL, HOME |-> NULL]
    /\ proc_exe = ReadlinkFails
    /\ fs = [path |-> HomePath, file |-> NoFile]
    /\ symtab = [versioned |-> NULL, plain |-> NULL]
    /\ check = NoRet
    /\ trace = <<>>
    /\ threads = <<>>
    /\ heap = <<>>
    /\ faults = {}

\* lines 188-196 on the list and the name as they stand
MatchEntries ==
    /\ check' = <<match_loop(banlist, exe_name)>>
    /\ UNCHANGED <<shim, environ, proc_exe, fs, symtab, trace, host>>

\* the same entries in another order
Reorder ==
    \E i \in DOMAIN banlist, j \in DOMAIN banlist :
        /\ i < j
        /\ banlist[i] # banlist[j]
        /\ banlist' = [banlist EXCEPT ![i] = banlist[j], ![j] = banlist[i]]
        /\ UNCHANGED <<real_function, exe_name, result_valid, result, config_mtime,
                       environ, proc_exe, fs, symtab, check, trace, host>>

NextMatch == MatchEntries \/ Reorder

SpecMatch == InitMatch /\ [][NextMatch]_vars

\* C4: the match loop returns 0 (suppress) exactly when some entry of the list
\* matches the whole candidate under shell-glob semantics, whatever the order of the
\* entries: the result computed for one order is the result for every other order.
C4_MatchIsAnyEntryGlob ==
    check # NoRet
    => ((check = <<0>>) <=> \E i \in DOMAIN banlist : GlobMatches(banlist[i], exe_name))

\* a list whose first entry does not match and whose second, a bracket pattern, does
C4_Witness ==
    /\ check = <<0>>
    /\ Len(banlist) = 2
    /\ ~GlobMatches(banlist[1], exe_name)
    /\ banlist[2] = <<"*", "[", "R", "-", "T", "]", "1">>
    /\ exe_name = SteamExe

-----------------------------------------------------------------------------
(* Properties of the policy decision and of the refresh, under Spec *)

BaseNameEntry == <<"S", "*">>
WholePathEntry == <<"*", "/", "S", "*">>

\* the lists a reload of a file content can leave in memory
Loads(content) ==
    {read_entries(content, 1, t) : t \in [1..NumEntries(content) -> HeapTails]}

\* C3, as stated: with the policy file listing a pattern that names only the last
\* path component (S*) read into the list, a process whose executable path ends in a
\* matching component (/b/S1) is suppressed.
C3_Original ==
    (/\ check # NoRet
     /\ fs.file.exists /\ fs.file.readable /\ fs.file.content = BaseNamePattern
     /\ banlist = <<BaseNameEntry>>
     /\ exe_name = SteamExe)
    => check = <<0>>

\* C3, amended: entries are matched against the whole executable path.  With the
\* entry S* in the list, /b/S1 is not suppressed; with the entry */S*, which covers
\* the directories, it is; /b/g, which neither entry matches, is not suppressed.
C3_WholePathIsMatched ==
    check # NoRet
    => /\ (exe_name = SteamExe /\ banlist = <<BaseNameEntry>>) => check = <<1>>
       /\ (exe_name = SteamExe /\ banlist = <<WholePathEntry>>) => check = <<0>>
       /\ (exe_name = GameExe /\ banlist \in {<<BaseNameEntry>>, <<WholePathEntry>>})
          => check = <<1>>

\* the file's whole-path pattern was read in this invocation and suppressed the call
C3_Witness ==
    /\ check = <<0>>
    /\ Has(trace, "fgets")
    /\ fs.file.content = WholePathPattern
    /\ banlist = <<WholePathEntry>>
    /\ exe_name = SteamExe

\* C5, as stated: whenever the policy file does not exist at the time of a call, the
\* call is not suppressed.
C5_Original ==
    (check # NoRet /\ ~fs.file.exists) => check = <<1>>

\* C5, amended: a call made while the policy file does not exist leaves the
\* in-memory list as it was and opens nothing; it is suppressed exactly when an entry
\* of that retained list matches the executable path, hence never when no list was
\* loaded before.
C5_MissingFileKeepsList ==
    [][(check' # NoRet /\ ~fs.file.exists)
       => /\ banlist' = banlist
          /\ ~Has(trace', "fopen")
          /\ (check' = <<0>>) <=> SomeEntryMatches(banlist, exe_name')
          /\ banlist = <<>> => check' = <<1>>]_vars

\* a call suppressed by a list that outlived its file
C5_Witness ==
    /\ check = <<0>>
    /\ ~fs.file.exists
    /\ Logged(trace, "Can't find config file!")
    /\ banlist # <<>>

\* C6, as stated: when the file is stat-able and readable and its modification time
\* and content differ from what the last reload recorded and loaded, the invocation's
\* refresh leaves a load of the new content in memory.
C6_Original ==
    [][(/\ check' # NoRet
        /\ result' = fs.path /\ fs.file.exists /\ fs.file.readable
        /\ config_mtime # NoTime
        /\ mtime_differs(config_mtime, fs.file.mtime)
        /\ banlist \notin Loads(fs.file.content))
       => banlist' \in Loads(fs.file.content)]_vars

\* C7, as stated: of two invocations in succession, with no change to the file
\* between them, the second leaves the list as the first left it.
C7_Original ==
    [][(check # NoRet /\ check' # NoRet) => banlist' = banlist]_vars

-----------------------------------------------------------------------------
(* The reload alone, on file contents drawn from a bounded set: the file   *)
(* exists and is readable where find_config_file looks for it.             *)

BlankLines == <<"\n", "\n">>
SpaceLine == <<"\n", " ", "\n">>
EmptyFile == <<>>
NoFinalNewline == <<"*", "/", "S", "*">>
LongLine == [i \in 1..(BUF_SIZE + 1) |-> "a"] \o <<"\n">>
ReloadContents ==
    {BlankLines, SpaceLine, EmptyFile, NoFinalNewline, LongLine, WholePathPattern, TwoPatterns}

InitReload ==
    /\ real_function = NULL
    /\ banlist = <<>>
    /\ exe_name = <<>>
    /\ result_valid = FALSE
    /\ result = <<>>
    /\ config_mtime = NoTime
    /\ environ = [XDG_CONFIG_HOME |-> NULL, HOME |-> HomeDir]
    /\ proc_exe \in ProcExes
    /\ fs \in [path : {HomePath},
               file : [exists : {TRUE}, readable : {TRUE}, mtime : Mtimes,
                       content : ReloadContents]]
    /\ symtab \in SymTabs
    /\ check = NoRet
    /\ trace = <<>>
    /\ threads = <<>>
    /\ heap = <<>>
    /\ faults = {}

NextReload == SDL_DisableScreenSaver

SpecReload == InitReload /\ [][NextReload]_vars

Blank(c) == c \in {"\n", " ", "\t"}

\* C8, as stated: a file of blank and whitespace-only lines, read by the refresh,
\* yields an empty list.
C8_Original ==
    (Has(trace, "fgets") /\ \A i \in DOMAIN fs.file.content : Blank(fs.file.content[i]))
    => banlist = <<>>

\* C8, amended: a file of empty lines only, read by the refresh, yields an empty list
\* and the call is not suppressed; a whitespace-only line is not skipped: the file that
\* holds a line with a single space yields one entry, which begins with that space.
C8_EmptyLinesAreSkipped ==
    Has(trace, "fgets")
    => /\ (\A i \in DOMAIN fs.file.content : fs.file.content[i] = "\n")
          => banlist = <<>> /\ check = <<1>>
       /\ fs.file.content = SpaceLine
          => Len(banlist) = 1 /\ Head(banlist[1]) = " "

\* a file of two empty lines was read and left the list empty
C8_Witness ==
    /\ Has(trace, "fgets")
    /\ fs.file.content = BlankLines
    /\ banlist = <<>>
    /\ check = <<1>>

-----------------------------------------------------------------------------
(* Properties of the ban list and of the reload *)

\* the lines of a file content: the runs of characters between newlines
RECURSIVE FileLinesFrom(_, _)
FileLinesFrom(content, pos) ==
    IF pos > Len(content) THEN <<>>
    ELSE LET newlines == {i \in pos..Len(content) : content[i] = "\n"}
             stop == IF newlines = {} THEN Len(content) + 1
                     ELSE CHOOSE i \in newlines : \A k \in newlines : i <= k
         IN  <<SubSeq(content, pos, stop - 1)>> \o FileLinesFrom(content, stop + 1)

\* the entries a policy file denotes: its non-empty lines, in file order
FileEntries(content) == SelectSeq(FileLinesFrom(content, 1), LAMBDA line : line # <<>>)

\* C11, as stated, in the states where the last successful read is the one the
\* invocation that just returned made of the file as it still is: the in-memory
\* sequence is empty or is the file's entries, and the recorded timestamp is the
\* file's.
C11_Original ==
    Has(trace, "fgets")
    => /\ banlist = <<>> \/ banlist = FileEntries(fs.file.content)
       /\ config_mtime = fs.file.mtime

-----------------------------------------------------------------------------
(* The process-lifetime caches: the host changes its environment variables  *)
(* and the link /proc/self/exe changes between invocations                  *)

\* the host calls setenv or unsetenv
setenv ==
    \E e \in ProcessEnvirons :
        /\ e # environ
        /\ environ' = e
        /\ check' = NoRet
        /\ trace' = <<>>
        /\ UNCHANGED <<shim, proc_exe, fs, symtab, host>>

\* what readlink("/proc/self/exe") would return changes (the binary is replaced
\* or unlinked, /proc becomes unavailable)
ExeRelinked ==
    \E e \in ProcExes :
        /\ e # proc_exe
        /\ proc_exe' = e
        /\ check' = NoRet
        /\ trace' = <<>>
        /\ UNCHANGED <<shim, environ, fs, symtab, host>>

InitProcess ==
    /\ real_function = NULL
    /\ banlist = <<>>
    /\ exe_name = <<>>
    /\ result_valid = FALSE
    /\ result = <<>>
    /\ config_mtime = NoTime
    /\ environ \in ProcessEnvirons
    /\ proc_exe \in ProcExes
    /\ fs = [path |-> HomePath,
             file |-> [exists |-> TRUE, readable |-> TRUE, mtime |-> <<0, 0>>,
                       content |-> WholePathPattern]]
    /\ symtab = [versioned |-> VersionedFn, plain |-> PlainFn]
    /\ check = NoRet
    /\ trace = <<>>
    /\ threads = <<>>
    /\ heap = <<>>
    /\ faults = {}

NextProcess ==
    \/ SDL_DisableScreenSaver
    \/ setenv
    \/ ExeRelinked

SpecProcess == InitProcess /\ [][NextProcess]_vars

\* C12: the cached executable path is set at most once.  The first policy check
\* resolves it (one readlink; the sentinel "(unknown)" when readlink fails), and
\* once it is non-empty no step changes it and no invocation reads the link again.
C12_ExePathIsSetOnce ==
    [][/\ (exe_name = <<>> /\ check' # NoRet)
          => /\ Count(trace', "readlink") = 1
             /\ exe_name' = IF proc_exe = ReadlinkFails THEN Unknown ELSE proc_exe
       /\ exe_name # <<>>
          => /\ exe_name' = exe_name
             /\ ~Has(trace', "readlink")]_vars

\* a later invocation has returned with the path cached before the link changed
C12_Witness ==
    /\ check # NoRet
    /\ exe_name = Unknown
    /\ proc_exe = SteamExe
    /\ ~Has(trace, "readlink")

\* the text of a path: its pieces joined
RECURSIVE PathText(_)
PathText(pieces) == IF pieces = <<>> THEN "" ELSE Head(pieces) \o PathText(Tail(pieces))

\* the path C13 states for an environment
LocatedPath(env) ==
    IF env.XDG_CONFIG_HOME # NULL THEN env.XDG_CONFIG_HOME \o <<"/", CONFIG_FILE>>
    ELSE IF env.HOME # NULL THEN env.HOME \o <<"/.config/", CONFIG_FILE>>
    ELSE <<>>

-----------------------------------------------------------------------------
(* Diagnostic output *)

\* C14, as stated: whatever the invocation that just returned wrote is a line on
\* standard error prefixed with the architecture tag and the resolved executable
\* name; nothing is written to standard output, so a versioned lookup that failed
\* and was followed by the fallback lookup wrote nothing.
C14_Original ==
    \A i \in DOMAIN trace :
        /\ trace[i][1] # "stdout"
        /\ trace[i][1] = "stderr"
           => (trace[i][2] = ARCH /\ exe_name # <<>> /\ trace[i][3] = exe_name)

-----------------------------------------------------------------------------
(* The refresh: what it leaves alone and what it records *)

\* C16, as stated: a refresh that finds the file's modification timestamp equal to
\* the one the previous reload recorded releases nothing, opens and reads nothing,
\* and leaves the list and the recorded timestamp as they were.
C16_Original ==
    [][(/\ check' # NoRet
        /\ stat_ok(result')
        /\ config_mtime = fs.file.mtime)
       => /\ banlist' = banlist
          /\ config_mtime' = config_mtime
          /\ ~Has(trace', "free")
          /\ ~Has(trace', "fopen")
          /\ ~Has(trace', "fgets")]_vars

\* C17: an invocation whose refresh finds no config path, or whose stat of the
\* path fails, leaves the ban list and the recorded timestamp as they were, releases
\* and opens nothing, logs the missing file, and decides by the retained list.
C17_StatFailureKeepsState ==
    [][(check' # NoRet /\ ~stat_ok(result'))
       => /\ banlist' = banlist
          /\ config_mtime' = config_mtime
          /\ ~Has(trace', "free")
          /\ ~Has(trace', "fopen")
          /\ Logged(trace', "Can't find config file!")
          /\ (check' = <<0>>) <=> SomeEntryMatches(banlist, exe_name')]_vars

\* a call allowed by a list and a timestamp that outlived the file
C17_Witness ==
    /\ check = <<1>>
    /\ ~fs.file.exists
    /\ Logged(trace, "Can't find config file!")
    /\ banlist # <<>>
    /\ config_mtime \in Mtimes

\* C18: an invocation whose refresh went on to open the file and could not has
\* released every entry, has read nothing, leaves the list empty, and is not
\* suppressed.
C18_UnreadableFileEmptiesList ==
    Logged(trace, "Could not open config file!")
    => /\ banlist = <<>>
       /\ check = <<1>>
       /\ Has(trace, "free")
       /\ Has(trace, "fopen")
       /\ ~Has(trace, "fgets")

\* a list of at least one entry was released for a file that then could not be
\* opened, though its pattern covers the executable
C18_Witness ==
    /\ Logged(trace, "Could not open config file!")
    /\ \E i \in DOMAIN trace : trace[i][1] = "free" /\ trace[i][2] > 0
    /\ check = <<1>>
    /\ exe_name = SteamExe
    /\ fs.file.content = WholePathPattern
    /\ ~fs.file.readable

\* C19, as stated: after an invocation whose open failed the file's timestamp is
\* the recorded one, and the next invocation, the file being untouched, does not
\* open or read the file and leaves the list empty.
C19_Original ==
    [][(Logged(trace, "Could not open config file!") /\ check' # NoRet)
       => /\ config_mtime = fs.file.mtime
          /\ ~Has(trace', "fopen")
          /\ ~Has(trace', "fgets")
          /\ banlist' = <<>>]_vars

\* C20, as stated: after an invocation that read the file, the ban list is the
\* sequence of the file's non-empty lines, each without its newline, whole.
C20_Original ==
    (check # NoRet /\ Has(trace, "fgets")) => banlist = FileEntries(fs.file.content)

-----------------------------------------------------------------------------
(* Several host threads inside SDL_DisableScreenSaver.  The code takes no   *)
(* lock, so a thread's step is one statement that touches the shared list.  *)
(* Here banlist is the address of the first entry (NULL for the empty list) *)
(* and the entries live in heap; a released entry keeps its address.  An    *)
(* access through a released entry or through NULL has no defined outcome   *)
(* (a signal, an abort by the allocator, a stale or reused value): the      *)
(* access is recorded in faults and the run is not followed beyond it.      *)

MaxThreads == 2
MaxNodes == 3

Threads == 1..MaxThreads
Nodes == {<<"entry", i>> : i \in 1..MaxNodes}
NoEntry == [live |-> FALSE, next |-> NULL, value |-> <<>>]

\* a thread outside the entry point
Idle == [pc |-> "idle", next |-> NULL, tail |-> NULL, todo |-> <<>>, entry |-> NULL,
         ret |-> NoRet]

\* the lines among the events of a step
Lines(events) == SelectSeq(events, LAMBDA e : e[1] \in {"stderr", "stdout"})

\* an invalid access: whatever the process does next is undefined
Faulted(kind) ==
    /\ threads' = [t \in Threads |-> [threads[t] EXCEPT !.pc = "undefined"]]
    /\ faults' = faults \cup {kind}

\* lines 177-185 and 123-133: exe_name, the config path, stat and the comparison
\* with the uninitialised config_mtime
Enter(t) ==
    /\ threads[t].pc = "idle"
    /\ \E stack_mtime \in Mtimes :
       \E name \in {resolve_exe_name} :
       \E located \in {find_config_file(name)} :
           /\ exe_name' = name
           /\ result_valid' = TRUE
           /\ result' = located.result
           /\ IF ~stat_ok(located.result)
              THEN /\ threads' = [threads EXCEPT ![t].pc = "match_init"]
                   /\ config_mtime' = config_mtime
                   /\ trace' = Lines(located.events)
                               \o <<StdErr(name, "Can't find config file!")>>
              ELSE IF mtime_differs(stack_mtime, fs.file.mtime)
                   THEN /\ threads' = [threads EXCEPT ![t].pc = "free_test"]
                        /\ config_mtime' = fs.file.mtime
                        /\ trace' = Lines(located.events)
                   ELSE /\ threads' = [threads EXCEPT ![t].pc = "match_init"]
                        /\ config_mtime' = config_mtime
                        /\ trace' = Lines(located.events)
    /\ UNCHANGED <<real_function, banlist, environ, proc_exe, fs, symtab, check, heap, faults>>

\* line 135: while (banlist != NULL)
FreeTest(t) ==
    /\ threads[t].pc = "free_test"
    /\ threads' = [threads EXCEPT ![t].pc = IF banlist = NULL THEN "fopen" ELSE "free_next"]
    /\ trace' = <<>>
    /\ UNCHANGED <<shim, environ, proc_exe, fs, symtab, check, heap, faults>>

\* line 136: next = banlist->next
FreeNext(t) ==
    /\ threads[t].pc = "free_next"
    /\ IF banlist = NULL
       THEN Faulted("null-dereference")
       ELSE IF heap[banlist].live
            THEN /\ threads' = [threads EXCEPT ![t].pc = "free_entry",
                                               ![t].next = heap[banlist].next]
                 /\ faults' = faults
            ELSE Faulted("use-after-free")
    /\ trace' = <<>>
    /\ UNCHANGED <<shim, environ, proc_exe, fs, symtab, check, heap>>

\* lines 137-138: free(banlist->value); free(banlist)
FreeEntry(t) ==
    /\ threads[t].pc = "free_entry"
    /\ IF banlist = NULL
       THEN /\ Faulted("null-dereference")
            /\ heap' = heap
       ELSE IF heap[banlist].live
            THEN /\ heap' = [heap EXCEPT ![banlist].live = FALSE]
                 /\ threads' = [threads EXCEPT ![t].pc = "free_set"]
                 /\ faults' = faults
            ELSE /\ Faulted("double-free")
                 /\ heap' = heap
    /\ trace' = <<>>
    /\ UNCHANGED <<shim, environ, proc_exe, fs, symtab, check>>

\* line 139: banlist = next
FreeSet(t) ==
    /\ threads[t].pc = "free_set"
    /\ banlist' = threads[t].next
    /\ threads' = [threads EXCEPT ![t].pc = "free_test"]
    /\ trace' = <<>>
    /\ UNCHANGED <<real_function, exe_name, result_valid, result, config_mtime,
                   environ, proc_exe, fs, symtab, check, heap, faults>>

\* lines 142-149: fopen, and tail = banlist; todo is what the read loop will make
\* of the file
Fopen(t) ==
    /\ threads[t].pc = "fopen"
    /\ IF ~fopen_ok(result)
       THEN /\ threads' = [threads EXCEPT ![t].pc = "match_init"]
            /\ trace' = <<StdErr(exe_name, "Could not open config file!")>>
       ELSE /\ \E heap_tails \in TailChoices :
                    threads' = [threads EXCEPT
                                    ![t].pc = "fgets",
                                    ![t].tail = banlist,
                                    ![t].todo = read_entries(fs.file.content, 1, heap_tails)]
            /\ trace' = <<>>
    /\ UNCHANGED <<shim, environ, proc_exe, fs, symtab, check, heap, faults>>

\* lines 150-172, one turn of the loop: the next entry is allocated at any address
\* the allocator has free and linked behind tail, or made the list's head
Fgets(t) ==
    /\ threads[t].pc = "fgets"
    /\ IF threads[t].todo = <<>>
       THEN /\ threads' = [threads EXCEPT ![t].pc = "match_init"]
            /\ UNCHANGED <<banlist, heap, faults>>
       ELSE \E next \in {a \in Nodes : ~heap[a].live} :
            \E made \in {[heap EXCEPT ![next] = [live |-> TRUE, next |-> NULL,
                                                 value |-> Head(threads[t].todo)]]} :
            \E advanced \in {[threads EXCEPT ![t].tail = next,
                                             ![t].todo = Tail(threads[t].todo)]} :
                IF threads[t].tail = NULL
                THEN /\ heap' = made
                     /\ banlist' = next
                     /\ threads' = advanced
                     /\ faults' = faults
                ELSE IF heap[threads[t].tail].live
                     THEN /\ heap' = [made EXCEPT ![threads[t].tail].next = next]
                          /\ banlist' = banlist
                          /\ threads' = advanced
                          /\ faults' = faults
                     ELSE /\ Faulted("use-after-free")
                          /\ heap' = made
                          /\ banlist' = banlist
    /\ trace' = <<>>
    /\ UNCHANGED <<real_function, exe_name, result_valid, result, config_mtime,
                   environ, proc_exe, fs, symtab, check>>

\* line 187: entry = banlist
MatchInit(t) ==
    /\ threads[t].pc = "match_init"
    /\ threads' = [threads EXCEPT ![t].pc = "match", ![t].entry = banlist]
    /\ trace' = <<>>
    /\ UNCHANGED <<shim, environ, proc_exe, fs, symtab, check, heap, faults>>

\* lines 188-196, one turn of the loop
Match(t) ==
    /\ threads[t].pc = "match"
    /\ IF threads[t].entry = NULL
       THEN /\ threads' = [threads EXCEPT ![t].pc = "decide", ![t].ret = <<1>>]
            /\ faults' = faults
       ELSE IF heap[threads[t].entry].live
            THEN /\ threads' = IF fnmatch(heap[threads[t].entry].value, exe_name, {}) = 0
                               THEN [threads EXCEPT ![t].pc = "decide", ![t].ret = <<0>>]
                               ELSE [threads EXCEPT ![t].entry = heap[threads[t].entry].next]
                 /\ faults' = faults
            ELSE Faulted("use-after-free")
    /\ trace' = <<>>
    /\ UNCHANGED <<shim, environ, proc_exe, fs, symtab, check, heap>>

\* lines 200-204: the entry point acts on check_exe's return value
Decide(t) ==
    /\ threads[t].pc = "decide"
    /\ \E called \in {call_real_function(exe_name)} :
           IF threads[t].ret # <<0>>
           THEN /\ real_function' = called.real_function
                /\ trace' = Lines(called.events)
           ELSE /\ real_function' = real_function
                /\ trace' = <<StdErr(exe_name, "Prevented SDL_DisableScreenSaver().")>>
    /\ check' = threads[t].ret
    /\ threads' = [threads EXCEPT ![t] = Idle]
    /\ UNCHANGED <<banlist, exe_name, result_valid, result, config_mtime,
                   environ, proc_exe, fs, symtab, heap, faults>>

InitThreads ==
    /\ real_function = NULL
    /\ banlist = NULL
    /\ exe_name = <<>>
    /\ result_valid = FALSE
    /\ result = <<>>
    /\ config_mtime = NoTime
    /\ environ = [XDG_CONFIG_HOME |-> NULL, HOME |-> HomeDir]
    /\ proc_exe = SteamExe
    /\ fs = [path |-> HomePath,
             file |-> [exists |-> TRUE, readable |-> TRUE, mtime |-> <<0, 0>>,
                       content |-> BaseNamePattern]]
    /\ symtab = [versioned |-> VersionedFn, plain |-> PlainFn]
    /\ check = NoRet
    /\ trace = <<>>
    /\ threads = [t \in Threads |-> Idle]
    /\ heap = [a \in Nodes |-> NoEntry]
    /\ faults = {}

NextThreads ==
    \/ \E t \in Threads : Enter(t)
    \/ \E t \in Threads : FreeTest(t)
    \/ \E t \in Threads : FreeNext(t)
    \/ \E t \in Threads : FreeEntry(t)
    \/ \E t \in Threads : FreeSet(t)
    \/ \E t \in Threads : Fopen(t)
    \/ \E t \in Threads : Fgets(t)
    \/ \E t \in Threads : MatchInit(t)
    \/ \E t \in Threads : Match(t)
    \/ \E t \in Threads : Decide(t)

SpecThreads == InitThreads /\ [][NextThreads]_vars

\* the statements of refresh_banlist that release, rebuild or reassign the list
Mutating == {"free_test", "free_next", "free_entry", "free_set", "fopen", "fgets"}

\* C15, as stated: under every interleaving of the invocations of several threads
\* no invocation makes an access that can stop the process (none reads, follows or
\* releases an entry that has been released), and at most one refresh at a time is
\* at work on the ban list.
C15_Original ==
    /\ faults = {}
    /\ Cardinality({t \in Threads : threads[t].pc \in Mutating}) <= 1

====
